---- MODULE Spec2Model ----
(***************************************************************************)
(* A model of backend/server.py: the chess move validator, the board that  *)
(* is replayed from the move log, and the handlers that mutate one room    *)
(* document (join, move, resign, undo request, rematch request).           *)
(*                                                                         *)
(* The room is the MongoDB document of one existing room (create_room has  *)
(* run).  Player names and timestamps are left out: no handler reads them  *)
(* back to decide anything about the room.  The websocket registry is the  *)
(* ConnectionManager's two dictionaries.                                   *)
(***************************************************************************)
EXTENDS Integers, Sequences, FiniteSets, TLC

VARIABLES
    room,       \* the room document in db.game_rooms
    response,   \* what the last handler returned / sent (HTTP body or ws message)
    hpc,        \* per websocket handler: "idle" or "validated" (between its read and its write)
    hlocal,     \* per websocket handler: its message, and the log it read and what it computed from it
    active_connections,  \* manager.active_connections: player id -> websocket, None where no key
    room_connections     \* manager.room_connections: room id -> list of player ids

vars == <<room, response, hpc, hlocal, active_connections, room_connections>>

(***************************************************************************)
(* Bounds of the model.                                                    *)
(***************************************************************************)
\* longest move log explored by the lifecycle specification Spec
MaxMoves == 3
\* longest move log explored by the play specification SpecPlay
MaxPlies == 5
\* longest move log explored by the interleaving specification SpecRace
MaxRaceMoves == 2

None == "None"

\* the player ids that call the handlers: any of them may join, so a room of
\* two seated players leaves a third id that is not seated
PlayerIds == {"p1", "p2", "p3"}
\* the move requests (from_square, to_square) the clients send: the moves of
\* 1. f3 e5 2. g4 Qh4, and a king step e1-f2; each is also sent when the
\* board does not allow it
MoveSquares == {<<"f2", "f3">>, <<"e7", "e5">>, <<"g2", "g4">>, <<"d8", "h4">>, <<"e1", "f2">>}
\* the websocket handlers that may run interleaved, and the player of each
Handlers == {"h1", "h2"}
HandlerPlayer == [h1 |-> "p1", h2 |-> "p2"]
\* the ids that hold a websocket connection: they send the moves and the
\* undo requests.  With seats (p1, p3) or (p3, p1) the sender p2 is not seated
Connected == {HandlerPlayer[h] : h \in Handlers}
Colors == {"white", "black"}

(***************************************************************************)
(* Squares and pieces.                                                     *)
(***************************************************************************)
SquareNames ==
    << <<"a1", "a2", "a3", "a4", "a5", "a6", "a7", "a8">>,
       <<"b1", "b2", "b3", "b4", "b5", "b6", "b7", "b8">>,
       <<"c1", "c2", "c3", "c4", "c5", "c6", "c7", "c8">>,
       <<"d1", "d2", "d3", "d4", "d5", "d6", "d7", "d8">>,
       <<"e1", "e2", "e3", "e4", "e5", "e6", "e7", "e8">>,
       <<"f1", "f2", "f3", "f4", "f5", "f6", "f7", "f8">>,
       <<"g1", "g2", "g3", "g4", "g5", "g6", "g7", "g8">>,
       <<"h1", "h2", "h3", "h4", "h5", "h6", "h7", "h8">> >>

\* chr(ord('a') + file) + str(rank + 1)
coords_to_square(file, rank) == SquareNames[file + 1][rank + 1]

Coords == (0..7) \X (0..7)
Squares == {coords_to_square(c[1], c[2]) : c \in Coords}

SquareCoords == [sq \in Squares |-> CHOOSE c \in Coords : coords_to_square(c[1], c[2]) = sq]

\* (ord(square[0]) - ord('a'), int(square[1]) - 1)
square_to_coords(square) == SquareCoords[square]

PieceTypes == {"pawn", "knight", "bishop", "rook", "queen", "king"}

PieceNames ==
    [white |-> [pawn |-> "white_pawn", knight |-> "white_knight", bishop |-> "white_bishop",
                rook |-> "white_rook", queen |-> "white_queen", king |-> "white_king"],
     black |-> [pawn |-> "black_pawn", knight |-> "black_knight", bishop |-> "black_bishop",
                rook |-> "black_rook", queen |-> "black_queen", king |-> "black_king"]]

Pieces == {PieceNames[c][t] : c \in Colors, t \in PieceTypes}

\* piece.split('_')[0]
piece_color(piece) == CHOOSE c \in Colors : \E t \in PieceTypes : PieceNames[c][t] = piece

\* piece.split('_')[1]
piece_type(piece) == CHOOSE t \in PieceTypes : \E c \in Colors : PieceNames[c][t] = piece

\* piece.startswith(color), for color one of "white", "black"
startswith(piece, color) == piece_color(piece) = color

\* a square that is no key of the board dict
NoPiece == "-"

\* square in board
InBoard(board, square) == board[square] # NoPiece

BackRank == <<"rook", "knight", "bishop", "queen", "king", "bishop", "knight", "rook">>

get_initial_board ==
    [sq \in Squares |->
        LET file == square_to_coords(sq)[1]
            rank == square_to_coords(sq)[2]
        IN  CASE rank = 0 -> PieceNames["white"][BackRank[file + 1]]
              [] rank = 1 -> "white_pawn"
              [] rank = 6 -> "black_pawn"
              [] rank = 7 -> PieceNames["black"][BackRank[file + 1]]
              [] OTHER -> NoPiece]

Abs(x) == IF x < 0 THEN -x ELSE x

(***************************************************************************)
(* The validators.  Each returns <<valid, message>> as the code's tuple.   *)
(***************************************************************************)
validate_pawn_move(board, from_file, from_rank, to_file, to_rank, color, room_data) ==
    LET direction == IF color = "white" THEN 1 ELSE -1
        start_rank == IF color = "white" THEN 1 ELSE 6
        to_square == coords_to_square(to_file, to_rank)
    IN  IF from_file = to_file
        THEN IF to_rank = from_rank + direction
             THEN IF InBoard(board, to_square) THEN <<FALSE, "Path blocked">> ELSE <<TRUE, "">>
             ELSE IF to_rank = from_rank + (2 * direction) /\ from_rank = start_rank
             THEN IF InBoard(board, to_square) THEN <<FALSE, "Path blocked">> ELSE <<TRUE, "">>
             ELSE <<FALSE, "Invalid pawn move">>
        ELSE IF Abs(from_file - to_file) = 1 /\ to_rank = from_rank + direction
             THEN IF InBoard(board, to_square) THEN <<TRUE, "">>
                  ELSE IF room_data.en_passant_target = to_square THEN <<TRUE, "en_passant">>
                  ELSE <<FALSE, "Invalid pawn move">>
        ELSE <<FALSE, "Invalid pawn move">>

\* the while loops of validate_rook_move / validate_bishop_move: TRUE iff some
\* square from (file, rank) up to, not including, the point where the loop
\* condition fails is in the board.  rook is TRUE for the rook's loop
\* condition (file or rank differs), FALSE for the bishop's (file differs).
RECURSIVE PathBlockedFrom(_, _, _, _, _, _, _, _)
PathBlockedFrom(board, current_file, current_rank, to_file, to_rank, file_step, rank_step, rook) ==
    LET go_on == IF rook THEN current_file # to_file \/ current_rank # to_rank
                 ELSE current_file # to_file
    IN  IF ~go_on THEN FALSE
        ELSE IF InBoard(board, coords_to_square(current_file, current_rank)) THEN TRUE
        ELSE PathBlockedFrom(board, current_file + file_step, current_rank + rank_step,
                             to_file, to_rank, file_step, rank_step, rook)

validate_rook_move(board, from_file, from_rank, to_file, to_rank) ==
    IF from_file # to_file /\ from_rank # to_rank
    THEN <<FALSE, "Rook moves horizontally or vertically">>
    ELSE LET file_step == IF from_file = to_file THEN 0 ELSE IF to_file > from_file THEN 1 ELSE -1
             rank_step == IF from_rank = to_rank THEN 0 ELSE IF to_rank > from_rank THEN 1 ELSE -1
         IN  IF PathBlockedFrom(board, from_file + file_step, from_rank + rank_step,
                                to_file, to_rank, file_step, rank_step, TRUE)
             THEN <<FALSE, "Path blocked">>
             ELSE <<TRUE, "">>

validate_knight_move(from_file, from_rank, to_file, to_rank) ==
    LET file_diff == Abs(from_file - to_file)
        rank_diff == Abs(from_rank - to_rank)
    IN  IF (file_diff = 2 /\ rank_diff = 1) \/ (file_diff = 1 /\ rank_diff = 2)
        THEN <<TRUE, "">>
        ELSE <<FALSE, "Invalid knight move">>

\* a bishop check that looks at the shape of the move and not at the path
validate_bishop_move_AnyPath(board, from_file, from_rank, to_file, to_rank) ==
    IF Abs(from_file - to_file) # Abs(from_rank - to_rank)
    THEN <<FALSE, "Bishop moves diagonally">>
    ELSE <<TRUE, "">>

validate_bishop_move(board, from_file, from_rank, to_file, to_rank) ==
    IF Abs(from_file - to_file) # Abs(from_rank - to_rank)
    THEN <<FALSE, "Bishop moves diagonally">>
    ELSE LET file_step == IF to_file > from_file THEN 1 ELSE -1
             rank_step == IF to_rank > from_rank THEN 1 ELSE -1
         IN  IF PathBlockedFrom(board, from_file + file_step, from_rank + rank_step,
                                to_file, to_rank, file_step, rank_step, FALSE)
             THEN <<FALSE, "Path blocked">>
             ELSE <<TRUE, "">>

validate_queen_move(board, from_file, from_rank, to_file, to_rank) ==
    IF validate_rook_move(board, from_file, from_rank, to_file, to_rank)[1] THEN <<TRUE, "">>
    ELSE IF validate_bishop_move(board, from_file, from_rank, to_file, to_rank)[1] THEN <<TRUE, "">>
    ELSE <<FALSE, "Invalid queen move">>

validate_king_move(board, from_file, from_rank, to_file, to_rank, color, room_data) ==
    LET file_diff == Abs(from_file - to_file)
        rank_diff == Abs(from_rank - to_rank)
        free(sq) == ~InBoard(board, sq)
    IN  IF file_diff <= 1 /\ rank_diff <= 1 THEN <<TRUE, "">>
        ELSE IF rank_diff = 0 /\ file_diff = 2
        THEN IF color = "white" /\ from_rank = 0 /\ ~room_data.white_king_moved
             THEN IF to_file = 6 /\ ~room_data.white_rook_h1_moved
                  THEN IF free("f1") /\ free("g1") THEN <<TRUE, "castling_kingside">>
                       ELSE <<FALSE, "Invalid king move">>
                  ELSE IF to_file = 2 /\ ~room_data.white_rook_a1_moved
                  THEN IF free("b1") /\ free("c1") /\ free("d1") THEN <<TRUE, "castling_queenside">>
                       ELSE <<FALSE, "Invalid king move">>
                  ELSE <<FALSE, "Invalid king move">>
             ELSE IF color = "black" /\ from_rank = 7 /\ ~room_data.black_king_moved
             THEN IF to_file = 6 /\ ~room_data.black_rook_h8_moved
                  THEN IF free("f8") /\ free("g8") THEN <<TRUE, "castling_kingside">>
                       ELSE <<FALSE, "Invalid king move">>
                  ELSE IF to_file = 2 /\ ~room_data.black_rook_a8_moved
                  THEN IF free("b8") /\ free("c8") /\ free("d8") THEN <<TRUE, "castling_queenside">>
                       ELSE <<FALSE, "Invalid king move">>
                  ELSE <<FALSE, "Invalid king move">>
             ELSE <<FALSE, "Invalid king move">>
        ELSE <<FALSE, "Invalid king move">>

is_valid_chess_move(board, from_square, to_square, piece, current_turn, room_data) ==
    IF ~startswith(piece, current_turn) THEN <<FALSE, "Not your piece">>
    ELSE IF from_square = to_square THEN <<FALSE, "Cannot move to same square">>
    ELSE IF InBoard(board, to_square) /\ startswith(board[to_square], current_turn)
    THEN <<FALSE, "Cannot capture your own piece">>
    ELSE LET from_file == square_to_coords(from_square)[1]
             from_rank == square_to_coords(from_square)[2]
             to_file == square_to_coords(to_square)[1]
             to_rank == square_to_coords(to_square)[2]
             ptype == piece_type(piece)
             color == piece_color(piece)
         IN  CASE ptype = "pawn" ->
                    validate_pawn_move(board, from_file, from_rank, to_file, to_rank, color, room_data)
               [] ptype = "rook" -> validate_rook_move(board, from_file, from_rank, to_file, to_rank)
               [] ptype = "knight" -> validate_knight_move(from_file, from_rank, to_file, to_rank)
               [] ptype = "bishop" -> validate_bishop_move(board, from_file, from_rank, to_file, to_rank)
               [] ptype = "queen" -> validate_queen_move(board, from_file, from_rank, to_file, to_rank)
               [] ptype = "king" ->
                    validate_king_move(board, from_file, from_rank, to_file, to_rank, color, room_data)

\* is_in_check: finds the king, loops over the opponent's pieces doing
\* nothing, and returns False on every path.
is_in_check(board, color) ==
    LET king_squares == {sq \in Squares : board[sq] = PieceNames[color]["king"]}
    IN  IF king_squares = {} THEN FALSE ELSE FALSE

(***************************************************************************)
(* The board is never stored: every site replays the move log over the     *)
(* initial board, relocating the piece on from_square to to_square.        *)
(***************************************************************************)
\* one iteration of: if move["from_square"] in board: piece = board.pop(...); board[to] = piece
ApplyLoggedMove(board, move) ==
    IF InBoard(board, move.from_square)
    THEN [[board EXCEPT ![move.from_square] = NoPiece]
            EXCEPT ![move.to_square] = board[move.from_square]]
    ELSE board

RECURSIVE ReplayFrom(_, _, _)
ReplayFrom(board, moves, i) ==
    IF i > Len(moves) THEN board
    ELSE ReplayFrom(ApplyLoggedMove(board, moves[i]), moves, i + 1)

\* board = get_initial_board(); for move in room.get("moves", []): ...
replay_board(moves) == ReplayFrom(get_initial_board, moves, 1)

(***************************************************************************)
(* The room document.                                                      *)
(***************************************************************************)
\* GameRoom(room_id=..., created_at=...): the defaults of the pydantic model
GameRoom ==
    [player1_id |-> None, player2_id |-> None,
     current_turn |-> "white", moves |-> <<>>, game_status |-> "waiting",
     winner |-> None, resignation_by |-> None,
     undo_requests |-> <<>>, rematch_requests |-> <<>>,
     white_king_moved |-> FALSE, black_king_moved |-> FALSE,
     white_rook_a1_moved |-> FALSE, white_rook_h1_moved |-> FALSE,
     black_rook_a8_moved |-> FALSE, black_rook_h8_moved |-> FALSE,
     en_passant_target |-> None]

\* GameMove(from_square=, to_square=, piece=, player=, is_castling=, is_en_passant=)
GameMove(from_square, to_square, piece, player, move_type) ==
    [from_square |-> from_square, to_square |-> to_square, piece |-> piece,
     player |-> player,
     is_castling |-> move_type \in {"castling_kingside", "castling_queenside"},
     is_en_passant |-> (move_type = "en_passant"),
     promoted_to |-> None]

\* player_id in requests (a list)
InList(x, list) == \E i \in 1..Len(list) : list[i] = x

\* what a handler returned or sent: the operation, the caller, the outcome
\* ("ok", "rejected", or "silent" when nothing is sent) and its detail
Reply(op, by, result, detail) == [op |-> op, by |-> by, result |-> result, detail |-> detail]

(***************************************************************************)
(* HTTP handlers.                                                          *)
(***************************************************************************)
\* join_room without its "Room is full" branch: a join on a full room takes
\* the second seat over
JoinRoom_NoRoomFull(player_id) ==
    /\ IF room.player1_id = None
       THEN /\ room' = [room EXCEPT !.player1_id = player_id, !.game_status = "waiting"]
            /\ response' = Reply("join", player_id, "ok", "white")
       ELSE /\ room' = [room EXCEPT !.player2_id = player_id, !.game_status = "active"]
            /\ response' = Reply("join", player_id, "ok", "black")
    /\ UNCHANGED <<hpc, hlocal, active_connections, room_connections>>

\* join_room: POST /api/rooms/{room_id}/join
JoinRoom(player_id) ==
    /\ IF room.player1_id = None
       THEN /\ room' = [room EXCEPT !.player1_id = player_id, !.game_status = "waiting"]
            /\ response' = Reply("join", player_id, "ok", "white")
       ELSE IF room.player2_id = None
       THEN /\ room' = [room EXCEPT !.player2_id = player_id, !.game_status = "active"]
            /\ response' = Reply("join", player_id, "ok", "black")
       ELSE /\ room' = room
            /\ response' = Reply("join", player_id, "rejected", "Room is full")
    /\ UNCHANGED <<hpc, hlocal, active_connections, room_connections>>

\* resign_game: POST /api/rooms/{room_id}/resign/{player_id}
ResignGame(player_id) ==
    /\ IF room.player1_id = player_id
       THEN /\ room' = [room EXCEPT !.game_status = "resigned",
                                    !.winner = room.player2_id,
                                    !.resignation_by = player_id]
            /\ response' = Reply("resign", player_id, "ok", room.player2_id)
       ELSE IF room.player2_id = player_id
       THEN /\ room' = [room EXCEPT !.game_status = "resigned",
                                    !.winner = room.player1_id,
                                    !.resignation_by = player_id]
            /\ response' = Reply("resign", player_id, "ok", room.player1_id)
       ELSE /\ room' = room
            /\ response' = Reply("resign", player_id, "rejected", "Player not in this game")
    /\ UNCHANGED <<hpc, hlocal, active_connections, room_connections>>

\* request_undo: POST /api/rooms/{room_id}/undo/{player_id}
RequestUndo(player_id) ==
    /\ IF ~InList(player_id, room.undo_requests)
       THEN room' = [room EXCEPT !.undo_requests = Append(room.undo_requests, player_id)]
       ELSE room' = room
    /\ response' = Reply("undo", player_id, "ok", "undo_requested")
    /\ UNCHANGED <<hpc, hlocal, active_connections, room_connections>>

\* the $set of request_rematch with "current_turn" left out of it
RematchReset_KeepsTurn(rm) ==
    [rm EXCEPT !.moves = <<>>, !.game_status = "active",
               !.winner = None, !.resignation_by = None,
               !.undo_requests = <<>>, !.rematch_requests = <<>>,
               !.white_king_moved = FALSE, !.black_king_moved = FALSE,
               !.white_rook_a1_moved = FALSE, !.white_rook_h1_moved = FALSE,
               !.black_rook_a8_moved = FALSE, !.black_rook_h8_moved = FALSE,
               !.en_passant_target = None]

\* the $set of request_rematch when both requests are in
RematchReset(rm) ==
    [rm EXCEPT !.moves = <<>>, !.current_turn = "white", !.game_status = "active",
               !.winner = None, !.resignation_by = None,
               !.undo_requests = <<>>, !.rematch_requests = <<>>,
               !.white_king_moved = FALSE, !.black_king_moved = FALSE,
               !.white_rook_a1_moved = FALSE, !.white_rook_h1_moved = FALSE,
               !.black_rook_a8_moved = FALSE, !.black_rook_h8_moved = FALSE,
               !.en_passant_target = None]

\* request_rematch: POST /api/rooms/{room_id}/rematch/{player_id}
RequestRematch(player_id) ==
    /\ IF ~InList(player_id, room.rematch_requests)
       THEN LET rematch_requests == Append(room.rematch_requests, player_id)
            IN  IF Len(rematch_requests) = 2
                THEN /\ room' = RematchReset(room)
                     /\ response' = Reply("rematch", player_id, "ok", "rematch_started")
                ELSE /\ room' = [room EXCEPT !.rematch_requests = rematch_requests]
                     /\ response' = Reply("rematch", player_id, "ok", "rematch_requested")
       ELSE /\ room' = room
            /\ response' = Reply("rematch", player_id, "ok", "rematch_requested")
    /\ UNCHANGED <<hpc, hlocal, active_connections, room_connections>>

(***************************************************************************)
(* The websocket "move" message.  The handler reads the room, replays the  *)
(* board, validates, and then writes with one update_one ($push, $set).    *)
(***************************************************************************)
\* what the handler decides from the room it read: lines 529-550.
\* accept: whether it goes on to write; result / detail: what it sends if not
MoveDecision(rm, player_color, from_square, to_square) ==
    IF rm.current_turn = player_color
    THEN LET board == replay_board(rm.moves)
             piece == board[from_square]
         IN  IF piece # NoPiece
             THEN LET v == is_valid_chess_move(board, from_square, to_square, piece,
                                               player_color, rm)
                  IN  [accept |-> v[1], result |-> IF v[1] THEN "ok" ELSE "rejected",
                       detail |-> v[2], piece |-> piece]
             ELSE [accept |-> FALSE, result |-> "silent", detail |-> "", piece |-> NoPiece]
    ELSE [accept |-> FALSE, result |-> "silent", detail |-> "", piece |-> NoPiece]

\* a flag update that files a rook leaving h1 under the a1 flag
CastlingFlagUpdate_WrongCorner(rm, piece, from_square) ==
    IF piece = "white_king" THEN [rm EXCEPT !.white_king_moved = TRUE]
    ELSE IF piece = "black_king" THEN [rm EXCEPT !.black_king_moved = TRUE]
    ELSE IF piece = "white_rook" /\ from_square = "a1" THEN [rm EXCEPT !.white_rook_a1_moved = TRUE]
    ELSE IF piece = "white_rook" /\ from_square = "h1" THEN [rm EXCEPT !.white_rook_a1_moved = TRUE]
    ELSE IF piece = "black_rook" /\ from_square = "a8" THEN [rm EXCEPT !.black_rook_a8_moved = TRUE]
    ELSE IF piece = "black_rook" /\ from_square = "h8" THEN [rm EXCEPT !.black_rook_h8_moved = TRUE]
    ELSE rm

\* update_data["$set"] castling flags: lines 572-584
CastlingFlagUpdate(rm, piece, from_square) ==
    IF piece = "white_king" THEN [rm EXCEPT !.white_king_moved = TRUE]
    ELSE IF piece = "black_king" THEN [rm EXCEPT !.black_king_moved = TRUE]
    ELSE IF piece = "white_rook" /\ from_square = "a1" THEN [rm EXCEPT !.white_rook_a1_moved = TRUE]
    ELSE IF piece = "white_rook" /\ from_square = "h1" THEN [rm EXCEPT !.white_rook_h1_moved = TRUE]
    ELSE IF piece = "black_rook" /\ from_square = "a8" THEN [rm EXCEPT !.black_rook_a8_moved = TRUE]
    ELSE IF piece = "black_rook" /\ from_square = "h8" THEN [rm EXCEPT !.black_rook_h8_moved = TRUE]
    ELSE rm

\* a next turn that leaves the turn with the mover
NextTurn_Stays(turn) == turn

\* "black" if room.get("current_turn") == "white" else "white"
NextTurn(turn) == IF turn = "white" THEN "black" ELSE "white"

\* an update_one whose $set leaves undo_requests as stored
MoveUpdate_KeepsUndo(stored, next_turn, player_id, from_square, to_square, piece, move_type) ==
    CastlingFlagUpdate(
        [stored EXCEPT !.moves = Append(stored.moves,
                                         GameMove(from_square, to_square, piece, player_id, move_type)),
                       !.current_turn = next_turn],
        piece, from_square)

\* update_one(update_data) applied to the stored document `stored`, with the
\* next_turn the handler computed from the document it fetched earlier:
\* $push appends to the stored log, $set overwrites turn, undo_requests, flag
MoveUpdate(stored, next_turn, player_id, from_square, to_square, piece, move_type) ==
    CastlingFlagUpdate(
        [stored EXCEPT !.moves = Append(stored.moves,
                                         GameMove(from_square, to_square, piece, player_id, move_type)),
                       !.current_turn = next_turn,
                       !.undo_requests = <<>>],
        piece, from_square)

\* the room and the reply the "move" branch leaves when it runs on room rm
\* without interleaving
MoveOutcome(rm, player_id, player_color, from_square, to_square) ==
    LET d == MoveDecision(rm, player_color, from_square, to_square)
    IN  [room |-> IF d.accept
                  THEN MoveUpdate(rm, NextTurn(rm.current_turn), player_id,
                                  from_square, to_square, d.piece, d.detail)
                  ELSE rm,
         response |-> Reply("move", player_id, d.result, d.detail)]

\* the "move" branch of websocket_endpoint handled without interleaving
SubmitMove(player_id, player_color, from_square, to_square) ==
    LET o == MoveOutcome(room, player_id, player_color, from_square, to_square)
    IN  /\ room' = o.room
        /\ response' = o.response
        /\ UNCHANGED <<hpc, hlocal, active_connections, room_connections>>

(***************************************************************************)
(* The ConnectionManager: the registry of websockets.                      *)
(***************************************************************************)
\* the room ids websockets are opened on: r1 is the room of the document
\* `room`, r2 has no document in db.game_rooms
RoomIds == {"r1", "r2"}

\* ConnectionManager.__init__: two empty dictionaries
NoConnections ==
    [active_connections |-> [p \in PlayerIds |-> None],
     room_connections |-> [r \in {} |-> <<>>]]

\* self.active_connections[player_id] = websocket
connect(manager, websocket, player_id) ==
    [manager EXCEPT !.active_connections[player_id] = websocket]

\* add_to_room: create the list if the room has none, append if not listed
add_to_room(manager, player_id, room_id) ==
    LET listed == IF room_id \in DOMAIN manager.room_connections
                  THEN manager.room_connections[room_id] ELSE <<>>
        list == IF InList(player_id, listed) THEN listed ELSE Append(listed, player_id)
    IN  [manager EXCEPT !.room_connections =
            [r \in DOMAIN manager.room_connections \cup {room_id} |->
                IF r = room_id THEN list ELSE manager.room_connections[r]]]

\* list.remove(x): the list without the first occurrence of x
RECURSIVE remove(_, _)
remove(list, x) ==
    IF list = <<>> THEN <<>>
    ELSE IF Head(list) = x THEN Tail(list)
    ELSE <<Head(list)>> \o remove(Tail(list), x)

\* disconnect: drop the player's key, take the id off every room's list and
\* drop the lists that become empty
disconnect(manager, player_id) ==
    LET kept == {r \in DOMAIN manager.room_connections :
                    remove(manager.room_connections[r], player_id) # <<>>}
    IN  [active_connections |-> [manager.active_connections EXCEPT ![player_id] = None],
         room_connections |-> [r \in kept |-> remove(manager.room_connections[r], player_id)]]

\* the registry once the websocket handlers h1 and h2 have connected to r1
HandlersConnected ==
    add_to_room(connect(add_to_room(connect(NoConnections, "h1", "p1"), "p1", "r1"),
                        "h2", "p2"),
                "p2", "r1")

(***************************************************************************)
(* Spec: the lifecycle of one room, every handler running to completion.   *)
(***************************************************************************)
\* the locals of a handler that is not between a read and a write
NoLocal == [player_color |-> None, from_square |-> None, to_square |-> None,
            piece |-> NoPiece, move_type |-> "", next_turn |-> None, read_moves |-> <<>>]

Init ==
    /\ room = GameRoom
    /\ response = Reply("create", None, "ok", "created")
    /\ hpc = [h \in Handlers |-> "idle"]
    /\ hlocal = [h \in Handlers |-> NoLocal]
    /\ active_connections = HandlersConnected.active_connections
    /\ room_connections = HandlersConnected.room_connections

Join == \E id \in PlayerIds : JoinRoom(id)

Resign == \E id \in PlayerIds : ResignGame(id)

Undo == \E id \in Connected : RequestUndo(id)

Rematch == \E id \in PlayerIds : RequestRematch(id)

Move ==
    /\ Len(room.moves) < MaxMoves
    /\ \E id \in Connected, color \in Colors, m \in MoveSquares : SubmitMove(id, color, m[1], m[2])

Next == Join \/ Resign \/ Undo \/ Rematch \/ Move

Spec == Init /\ [][Next]_vars

(***************************************************************************)
(* SpecPlay: play from the state Spec reaches after p1 and p2 have joined, *)
(* with a longer move log; only moves are sent.                            *)
(***************************************************************************)
SeatedRoom == [GameRoom EXCEPT !.player1_id = "p1", !.player2_id = "p2", !.game_status = "active"]

InitPlay ==
    /\ room = SeatedRoom
    /\ response = Reply("join", "p2", "ok", "black")
    /\ hpc = [h \in Handlers |-> "idle"]
    /\ hlocal = [h \in Handlers |-> NoLocal]
    /\ active_connections = HandlersConnected.active_connections
    /\ room_connections = HandlersConnected.room_connections

PlayMove ==
    /\ Len(room.moves) < MaxPlies
    /\ \E id \in Connected, color \in Colors, m \in MoveSquares : SubmitMove(id, color, m[1], m[2])

NextPlay == PlayMove

SpecPlay == InitPlay /\ [][NextPlay]_vars

(***************************************************************************)
(* SpecRace: the two websocket handlers of one room, each awaiting the     *)
(* database between its find_one and its update_one, so that the other     *)
(* handler's steps may fall in between.                                    *)
(***************************************************************************)
\* lines 524-559, 604-612: receive a move message, find_one, replay, validate
ReadMove(h, player_color, from_square, to_square) ==
    LET d == MoveDecision(room, player_color, from_square, to_square)
    IN  /\ hpc[h] = "idle"
        /\ Len(room.moves) < MaxRaceMoves
        /\ IF d.accept
           THEN /\ hpc' = [hpc EXCEPT ![h] = "validated"]
                /\ hlocal' = [hlocal EXCEPT ![h] =
                                [player_color |-> player_color, from_square |-> from_square,
                                 to_square |-> to_square, piece |-> d.piece,
                                 move_type |-> d.detail,
                                 next_turn |-> NextTurn(room.current_turn),
                                 read_moves |-> room.moves]]
                /\ UNCHANGED response
           ELSE /\ response' = Reply("move", HandlerPlayer[h], d.result, d.detail)
                /\ UNCHANGED <<hpc, hlocal>>
        /\ UNCHANGED <<room, active_connections, room_connections>>

\* lines 561-603: update_one with the values computed from the room that was read
WriteMove(h) ==
    /\ hpc[h] = "validated"
    /\ room' = MoveUpdate(room, hlocal[h].next_turn, HandlerPlayer[h], hlocal[h].from_square,
                          hlocal[h].to_square, hlocal[h].piece, hlocal[h].move_type)
    /\ response' = Reply("move", HandlerPlayer[h], "ok", hlocal[h].move_type)
    /\ hpc' = [hpc EXCEPT ![h] = "idle"]
    /\ hlocal' = [hlocal EXCEPT ![h] = NoLocal]
    /\ UNCHANGED <<active_connections, room_connections>>

RaceRead == \E h \in Handlers, color \in Colors, m \in MoveSquares : ReadMove(h, color, m[1], m[2])

RaceWrite == \E h \in Handlers : WriteMove(h)

NextRace == RaceRead \/ RaceWrite

SpecRace == InitPlay /\ [][NextRace]_vars

(***************************************************************************)
(* SpecOpening: play continued from positions the two seated players reach *)
(* by sending an opening in turn; each opening is run through the move     *)
(* handler from the seated room, so every starting room is one the server  *)
(* has stored.                                                             *)
(***************************************************************************)
\* the (from, to) requests of each opening, white (p1) first
Openings ==
    { << >>,
      \* white has cleared f1 and g1 and the black queen on h4 faces e1
      << <<"f2","f3">>, <<"e7","e5">>, <<"g2","g4">>, <<"d8","h4">>,
         <<"f1","g2">>, <<"a7","a6">>, <<"g1","h3">>, <<"a6","a5">> >>,
      \* white has cleared f1 and g1 with no black piece near
      << <<"g1","f3">>, <<"a7","a6">>, <<"g2","g3">>, <<"a6","a5">>,
         <<"f1","g2">>, <<"a5","a4">> >>,
      \* a white pawn on e5, black to move
      << <<"e2","e4">>, <<"a7","a6">>, <<"e4","e5">> >>,
      \* the white queen on h5 faces the black king along h5-e8
      << <<"e2","e4">>, <<"f7","f6">>, <<"d1","h5">>, <<"a7","a6">> >>,
      \* both rook pawns advanced two squares
      << <<"h2","h4">>, <<"a7","a5">> >>,
      \* a white pawn has reached b7, next to the rook on a8
      << <<"a2","a4">>, <<"h7","h6">>, <<"a4","a5">>, <<"h6","h5">>,
         <<"a5","a6">>, <<"h5","h4">>, <<"a6","b7">>, <<"h4","h3">> >>,
      \* white has cleared f1 and g1 and a black bishop has taken the rook on h1
      << <<"g2","g4">>, <<"b7","b6">>, <<"f1","h3">>, <<"c8","b7">>,
         <<"g1","f3">>, <<"a7","a6">>, <<"f3","h4">>, <<"b7","h1">> >> }

\* the requests sent after an opening
ContinuationSquares ==
    { <<"e1","g1">>, <<"e5","d6">>, <<"h5","e8">>, <<"h1","h3">>, <<"a8","a6">>,
      <<"e1","f2">>, <<"e8","e7">>, <<"h2","h3">>, <<"d7","d5">>,
      <<"b7","a8">>, <<"f2","f4">> }

\* accepted moves allowed after an opening
MaxExtra == 2

\* room and reply after the requests i.. of an opening, sent by the seats in turn
RECURSIVE PlayedFrom(_, _, _)
PlayedFrom(st, requests, i) ==
    IF i > Len(requests) THEN st
    ELSE PlayedFrom(MoveOutcome(st.room,
                                IF st.room.current_turn = "white" THEN "p1" ELSE "p2",
                                st.room.current_turn,
                                requests[i][1], requests[i][2]),
                    requests, i + 1)

\* room and reply after a whole opening, from the room with both seats taken
AfterOpening(requests) ==
    PlayedFrom([room |-> SeatedRoom, response |-> Reply("join", "p2", "ok", "black")],
               requests, 1)

InitOpening ==
    /\ \E requests \in Openings :
          /\ room = AfterOpening(requests).room
          /\ response = AfterOpening(requests).response
    /\ hpc = [h \in Handlers |-> "idle"]
    /\ hlocal = [h \in Handlers |-> NoLocal]
    /\ active_connections = HandlersConnected.active_connections
    /\ room_connections = HandlersConnected.room_connections

\* the log continues an opening by fewer than MaxExtra moves
MayContinue(moves) ==
    \E requests \in Openings :
        LET opening == AfterOpening(requests).room.moves
        IN  /\ Len(opening) <= Len(moves)
            /\ SubSeq(moves, 1, Len(opening)) = opening
            /\ Len(moves) < Len(opening) + MaxExtra

OpeningMove ==
    /\ MayContinue(room.moves)
    /\ \E id \in Connected, color \in Colors, m \in ContinuationSquares :
          SubmitMove(id, color, m[1], m[2])

OpeningUndo == \E id \in Connected : RequestUndo(id)

OpeningRematch == \E id \in Connected : RequestRematch(id)

NextOpening == OpeningMove \/ OpeningUndo \/ OpeningRematch

SpecOpening == InitOpening /\ [][NextOpening]_vars

(***************************************************************************)
(* SpecHttp: HTTP requests on one room, one by each of p1, p2 and p3, each  *)
(* a join or a rematch request.  Each awaits the database at its find_one  *)
(* and at its update_one, so the other requests' steps may fall between    *)
(* its read and its write.                                                 *)
(***************************************************************************)
\* the request coroutines and the player id each was sent with
Requests == {"q1", "q2", "q3"}

RequestPlayer == [q1 |-> "p1", q2 |-> "p2", q3 |-> "p3"]

\* the locals of a request that has not read yet
NoRequest == [op |-> None, result |-> None, detail |-> None, rematch_requests |-> <<>>]

\* a room with both seats taken and one move logged, which p1 has resigned
ResignedRoom ==
    [AfterOpening(<< <<"f2", "f3">> >>).room
        EXCEPT !.game_status = "resigned", !.winner = "p2", !.resignation_by = "p1"]

InitHttp ==
    /\ room \in {GameRoom, ResignedRoom}
    /\ response = Reply("create", None, "ok", "created")
    /\ hpc = [h \in Requests |-> "idle"]
    /\ hlocal = [h \in Requests |-> NoRequest]
    /\ active_connections = NoConnections.active_connections
    /\ room_connections = NoConnections.room_connections

\* the request returns: its locals at the return statement, and the reply
Return(h, op, result, detail) ==
    /\ hpc' = [hpc EXCEPT ![h] = "returned"]
    /\ hlocal' = [hlocal EXCEPT ![h] = [@ EXCEPT !.op = op, !.result = result,
                                                  !.detail = detail]]
    /\ response' = Reply(op, RequestPlayer[h], result, detail)

\* join_room lines 354-359, 366, 379-380: find_one and the choice of branch
JoinRead(h) ==
    /\ hpc[h] = "idle"
    /\ IF room.player1_id = None
       THEN /\ hpc' = [hpc EXCEPT ![h] = "join_first"]
            /\ hlocal' = [hlocal EXCEPT ![h].op = "join"]
            /\ UNCHANGED response
       ELSE IF room.player2_id = None
       THEN /\ hpc' = [hpc EXCEPT ![h] = "join_second"]
            /\ hlocal' = [hlocal EXCEPT ![h].op = "join"]
            /\ UNCHANGED response
       ELSE Return(h, "join", "rejected", "Room is full")
    /\ UNCHANGED <<room, active_connections, room_connections>>

\* join_room lines 360-365, 367-378, 382: update_one of the chosen seat, return
JoinWrite(h) ==
    /\ hpc[h] \in {"join_first", "join_second"}
    /\ UNCHANGED <<active_connections, room_connections>>
    /\ IF hpc[h] = "join_first"
       THEN /\ room' = [room EXCEPT !.player1_id = RequestPlayer[h],
                                    !.game_status = "waiting"]
            /\ Return(h, "join", "ok", "white")
       ELSE /\ room' = [room EXCEPT !.player2_id = RequestPlayer[h],
                                    !.game_status = "active"]
            /\ Return(h, "join", "ok", "black")

\* request_rematch lines 455-464, 491: find_one, append to the fetched list
RematchRead(h) ==
    /\ hpc[h] = "idle"
    /\ IF ~InList(RequestPlayer[h], room.rematch_requests)
       THEN LET rematch_requests == Append(room.rematch_requests, RequestPlayer[h])
            IN  /\ hpc' = [hpc EXCEPT ![h] = IF Len(rematch_requests) = 2
                                             THEN "rematch_reset" ELSE "rematch_append"]
                /\ hlocal' = [hlocal EXCEPT ![h] =
                                 [@ EXCEPT !.op = "rematch",
                                           !.rematch_requests = rematch_requests]]
                /\ UNCHANGED response
       ELSE Return(h, "rematch", "ok", "rematch_requested")
    /\ UNCHANGED <<room, active_connections, room_connections>>

\* request_rematch lines 465-489: update_one of the reset or of the list, return
RematchWrite(h) ==
    /\ hpc[h] \in {"rematch_reset", "rematch_append"}
    /\ UNCHANGED <<active_connections, room_connections>>
    /\ IF hpc[h] = "rematch_reset"
       THEN /\ room' = RematchReset(room)
            /\ Return(h, "rematch", "ok", "rematch_started")
       ELSE /\ room' = [room EXCEPT !.rematch_requests = hlocal[h].rematch_requests]
            /\ Return(h, "rematch", "ok", "rematch_requested")

HttpJoinRead == \E h \in Requests : JoinRead(h)

HttpJoinWrite == \E h \in Requests : JoinWrite(h)

HttpRematchRead == \E h \in Requests : RematchRead(h)

HttpRematchWrite == \E h \in Requests : RematchWrite(h)

NextHttp == HttpJoinRead \/ HttpJoinWrite \/ HttpRematchRead \/ HttpRematchWrite

SpecHttp == InitHttp /\ [][NextHttp]_vars

(***************************************************************************)
(* SpecConn: websockets opened on the seated room r1 and on the missing    *)
(* room r2; each connects, may send resign actions, and stops either by    *)
(* the client disconnecting or by an exception raised out of the handler.  *)
(***************************************************************************)
\* the websockets, and the path parameters each was opened with: w1 and w2
\* carry the same player id, p3 is not seated in r1, r2 has no document
Sockets == {"w1", "w2", "w3", "w4"}

SocketPlayer == [w1 |-> "p1", w2 |-> "p1", w3 |-> "p3", w4 |-> "p2"]

SocketRoom == [w1 |-> "r1", w2 |-> "r1", w3 |-> "r1", w4 |-> "r2"]

\* the manager object, as the two dictionaries it holds
manager == [active_connections |-> active_connections, room_connections |-> room_connections]

InitConn ==
    /\ room = SeatedRoom
    /\ response = Reply("join", "p2", "ok", "black")
    /\ hpc = [w \in Sockets |-> "new"]
    /\ hlocal = [w \in Sockets |-> NoLocal]
    /\ active_connections = NoConnections.active_connections
    /\ room_connections = NoConnections.room_connections

\* lines 496-522: manager.connect, manager.add_to_room, the board_state
\* message if the room exists, then the message loop
WsConnect(w) ==
    LET registered == add_to_room(connect(manager, w, SocketPlayer[w]),
                                  SocketPlayer[w], SocketRoom[w])
    IN  /\ hpc[w] = "new"
        /\ active_connections' = registered.active_connections
        /\ room_connections' = registered.room_connections
        /\ hpc' = [hpc EXCEPT ![w] = "open"]
        /\ response' = IF SocketRoom[w] = "r1"
                       THEN Reply("connect", SocketPlayer[w], "ok", "board_state")
                       ELSE Reply("connect", SocketPlayer[w], "silent", "")
        /\ UNCHANGED <<room, hlocal>>

\* lines 657-665: receive_text raises WebSocketDisconnect, manager.disconnect
WsDisconnect(w) ==
    LET left == disconnect(manager, SocketPlayer[w])
    IN  /\ hpc[w] = "open"
        /\ active_connections' = left.active_connections
        /\ room_connections' = left.room_connections
        /\ hpc' = [hpc EXCEPT ![w] = "closed"]
        /\ response' = Reply("disconnect", SocketPlayer[w], "ok", "player_disconnected")
        /\ UNCHANGED <<room, hlocal>>

\* lines 626-636 with resign_game 412-421: a resign action.  resign_game
\* raises HTTPException for a missing room or an id not seated; the only
\* except clause is for WebSocketDisconnect, so the exception leaves the
\* handler without manager.disconnect being called
WsResign(w) ==
    /\ hpc[w] = "open"
    /\ IF SocketRoom[w] = "r1" /\ SocketPlayer[w] \in {room.player1_id, room.player2_id}
       THEN ResignGame(SocketPlayer[w])
       ELSE /\ hpc' = [hpc EXCEPT ![w] = "failed"]
            /\ response' = Reply("resign", SocketPlayer[w], "rejected",
                                 IF SocketRoom[w] = "r1" THEN "Player not in this game"
                                 ELSE "Room not found")
            /\ UNCHANGED <<room, hlocal, active_connections, room_connections>>

ConnOpen == \E w \in Sockets : WsConnect(w)

ConnClose == \E w \in Sockets : WsDisconnect(w)

ConnResign == \E w \in Sockets : WsResign(w)

NextConn == ConnOpen \/ ConnClose \/ ConnResign

SpecConn == InitConn /\ [][NextConn]_vars

(***************************************************************************)
(* Vocabulary of the claims.                                               *)
(***************************************************************************)
\* the id seated with a colour: player1 is white, player2 is black
SeatOf(rm, color) == IF color = "white" THEN rm.player1_id ELSE rm.player2_id

Seated(rm, id) == id # None /\ (rm.player1_id = id \/ rm.player2_id = id)

\* both seats hold an id and the two ids differ
TwoPlayers(rm) ==
    rm.player1_id # None /\ rm.player2_id # None /\ rm.player1_id # rm.player2_id

\* this step appended one move to the log
MoveAccepted == Len(room'.moves) = Len(room.moves) + 1

LastMove(rm) == rm.moves[Len(rm.moves)]

\* every logged move was submitted by the id seated with the colour of its piece
SentBySeats(rm) ==
    \A i \in 1..Len(rm.moves) : rm.moves[i].player = SeatOf(rm, piece_color(rm.moves[i].piece))

\* the piece on `from` has a path-clear attacking move onto `to`, by the
\* geometry of the validators; a pawn attacks diagonally forward only
Attacks(board, from, to) ==
    LET ff == square_to_coords(from)[1]
        fr == square_to_coords(from)[2]
        tf == square_to_coords(to)[1]
        tr == square_to_coords(to)[2]
        ptype == piece_type(board[from])
        direction == IF piece_color(board[from]) = "white" THEN 1 ELSE -1
    IN  /\ from # to
        /\ CASE ptype = "pawn" -> Abs(ff - tf) = 1 /\ tr = fr + direction
             [] ptype = "rook" -> validate_rook_move(board, ff, fr, tf, tr)[1]
             [] ptype = "knight" -> validate_knight_move(ff, fr, tf, tr)[1]
             [] ptype = "bishop" -> validate_bishop_move(board, ff, fr, tf, tr)[1]
             [] ptype = "queen" -> validate_queen_move(board, ff, fr, tf, tr)[1]
             [] ptype = "king" -> Abs(ff - tf) <= 1 /\ Abs(fr - tr) <= 1

\* spec 4.3: some piece of by_color attacks the square
is_attacked(board, square, by_color) ==
    \E from \in Squares :
        /\ InBoard(board, from)
        /\ piece_color(board[from]) = by_color
        /\ Attacks(board, from, square)

\* spec 4.3: the king of the colour stands on an attacked square
in_check(board, color) ==
    \E k \in Squares :
        /\ board[k] = PieceNames[color]["king"]
        /\ is_attacked(board, k, NextTurn(color))

\* spec 4.3: some piece of the colour has a move the validator accepts that
\* does not leave its own king in check
has_legal_move(board, color, room_data) ==
    \E from \in Squares :
        /\ InBoard(board, from)
        /\ piece_color(board[from]) = color
        /\ \E to \in Squares :
            /\ is_valid_chess_move(board, from, to, board[from], color, room_data)[1]
            /\ ~in_check(ApplyLoggedMove(board, [from_square |-> from, to_square |-> to]), color)

(***************************************************************************)
(* The claims.                                                             *)
(***************************************************************************)
\* C1: in an active game of two players, a move is appended to the log only
\* if the player field of the move (the submitting player_id) is the id
\* seated with the colour whose turn it was.
C1_OnlySeatedMoverAccepted ==
    [][(room.game_status = "active" /\ TwoPlayers(room) /\ MoveAccepted)
         => LastMove(room').player = SeatOf(room, room.current_turn)]_vars

\* C2: while game_status is not "active" no step appends a move to the log.
C2_NoMoveUnlessActive ==
    [][room.game_status # "active" => ~MoveAccepted]_vars

\* C3: every accepted move (here: of a game whose moves were all sent by the
\* seated player of the moving colour) leaves the mover's own king
\* unattacked on the board replayed from the new log.
C3_AcceptedMoveKeepsKingSafe ==
    [][(MoveAccepted /\ SentBySeats(room'))
         => ~in_check(replay_board(room'.moves), room.current_turn)]_vars

\* C4: after an accepted move in an active game, if the side now to move has
\* no legal move, game_status is "finished", with the mover's id as winner
\* when that side is in check and no winner when it is not.
C4_MateOrStalemateFinishes ==
    [][(room.game_status = "active" /\ MoveAccepted /\ SentBySeats(room')
        /\ ~has_legal_move(replay_board(room'.moves), room'.current_turn, room'))
         => /\ room'.game_status = "finished"
            /\ room'.winner = IF in_check(replay_board(room'.moves), room'.current_turn)
                              THEN SeatOf(room, room.current_turn) ELSE None]_vars

\* C5: a handler that writes its move writes onto the log and the turn it
\* read: no other move was appended between its read and its write, so no
\* two accepted moves were validated against the same log.
C5_NoTwoAcceptedOnSameLog ==
    [][\A h \in Handlers :
         (hpc[h] = "validated" /\ hpc'[h] = "idle")
           => /\ room.moves = hlocal[h].read_moves
              /\ NextTurn(room.current_turn) = hlocal[h].next_turn]_vars

\* the step is a call of the handler `op` (each handler leaves its own reply)
Called(op) == response'.op = op

\* the step is the reset of a rematch both seated players asked for: the one
\* request on the list and the caller are the two seated ids
AgreedRematch ==
    /\ Called("rematch")
    /\ response'.detail = "rematch_started"
    /\ TwoPlayers(room)
    /\ Len(room.rematch_requests) = 1
    /\ {room.rematch_requests[1], response'.by} = {room.player1_id, room.player2_id}

\* C6: a join on a room with no player1 fills player1 with the caller, tells
\* it white and leaves the status waiting; otherwise a join on a room with no
\* player2 fills player2, tells black and sets the status active; a join on
\* a room with both seats filled is rejected (RoomFull) and changes nothing.
C6_JoinAssignsSeats ==
    [][Called("join") =>
         IF room.player1_id = None
         THEN /\ room' = [room EXCEPT !.player1_id = response'.by, !.game_status = "waiting"]
              /\ response'.result = "ok" /\ response'.detail = "white"
         ELSE IF room.player2_id = None
         THEN /\ room' = [room EXCEPT !.player2_id = response'.by, !.game_status = "active"]
              /\ response'.result = "ok" /\ response'.detail = "black"
         ELSE /\ room' = room
              /\ response'.result = "rejected" /\ response'.detail = "Room is full"]_vars

\* C6 witness: a third join was rejected on a room whose seats the first two filled
C6_Witness ==
    /\ response = Reply("join", "p3", "rejected", "Room is full")
    /\ room.player1_id = "p1" /\ room.player2_id = "p2" /\ room.game_status = "active"

\* C7: a resign by a seated id sets the status resigned, the winner to the
\* other player (an id, and not the resigner) and resignation_by to the
\* caller; a resign by an id that is not seated is rejected, changing nothing.
C7_ResignNamesOtherPlayer ==
    [][Called("resign") =>
         IF Seated(room, response'.by)
         THEN /\ response'.result = "ok"
              /\ room'.game_status = "resigned"
              /\ room'.winner \notin {None, response'.by}
              /\ room'.resignation_by = response'.by
         ELSE response'.result = "rejected" /\ room' = room]_vars

\* C8: once the status is resigned (here: in a room of two seated players),
\* no step other than the reset of an agreed rematch changes game_status,
\* winner or resignation_by.
C8_ResignedIsTerminal ==
    [][(room.game_status = "resigned" /\ TwoPlayers(room) /\ ~AgreedRematch)
         => /\ room'.game_status = room.game_status
            /\ room'.winner = room.winner
            /\ room'.resignation_by = room.resignation_by]_vars

\* C9: when the second of the two seated players requests a rematch, every
\* field of the room except the seats is back at its initial playing value:
\* empty log, white to move, status active, no winner, no resigner, all six
\* castling flags false, no en-passant target, both request lists empty.
C9_RematchResets ==
    [][AgreedRematch =>
         room' = [GameRoom EXCEPT !.player1_id = room.player1_id,
                                  !.player2_id = room.player2_id,
                                  !.game_status = "active"]]_vars

\* C9 witness: the seated p2 was told the rematch started and the room is reset
C9_Witness ==
    /\ response = Reply("rematch", "p2", "ok", "rematch_started")
    /\ room = SeatedRoom

\* C10: the log is reset by a rematch (here: in a room of two seated players)
\* only when the request on the list and the caller are the two distinct
\* seated ids; a request by an id that is not seated does not count.
C10_RematchNeedsBothSeated ==
    [][(TwoPlayers(room) /\ Called("rematch") /\ response'.detail = "rematch_started")
         => AgreedRematch]_vars

(***************************************************************************)
(* What a scan of the log from empty gives (spec 3, 4.4, 9).               *)
(***************************************************************************)
\* white to move iff the log has an even number of moves
ScanTurn(moves) == IF Len(moves) % 2 = 0 THEN "white" ELSE "black"

\* the six castling flags: a king flag iff the log holds a move of that
\* king, a rook flag iff it holds a move of a rook of that colour from that corner
ScanFlags(moves) ==
    LET moved(piece) == \E i \in 1..Len(moves) : moves[i].piece = piece
        left(piece, sq) ==
            \E i \in 1..Len(moves) : moves[i].piece = piece /\ moves[i].from_square = sq
    IN  [white_king_moved |-> moved("white_king"),
         black_king_moved |-> moved("black_king"),
         white_rook_a1_moved |-> left("white_rook", "a1"),
         white_rook_h1_moved |-> left("white_rook", "h1"),
         black_rook_a8_moved |-> left("black_rook", "a8"),
         black_rook_h8_moved |-> left("black_rook", "h8")]

\* the six castling flags the room stores
StoredFlags(rm) ==
    [white_king_moved |-> rm.white_king_moved,
     black_king_moved |-> rm.black_king_moved,
     white_rook_a1_moved |-> rm.white_rook_a1_moved,
     white_rook_h1_moved |-> rm.white_rook_h1_moved,
     black_rook_a8_moved |-> rm.black_rook_a8_moved,
     black_rook_h8_moved |-> rm.black_rook_h8_moved]

\* a logged move is a pawn's straight advance of two squares
IsDoublePush(move) ==
    /\ piece_type(move.piece) = "pawn"
    /\ square_to_coords(move.from_square)[1] = square_to_coords(move.to_square)[1]
    /\ Abs(square_to_coords(move.from_square)[2] - square_to_coords(move.to_square)[2]) = 2

\* the square a two-square advance passed over
PassedOver(move) ==
    coords_to_square(square_to_coords(move.from_square)[1],
                     (square_to_coords(move.from_square)[2]
                        + square_to_coords(move.to_square)[2]) \div 2)

\* the en-passant target after the log: set by a final two-square advance only
ScanEnPassant(moves) ==
    IF moves # <<>> /\ IsDoublePush(moves[Len(moves)])
    THEN PassedOver(moves[Len(moves)])
    ELSE None

\* C11: when a seated player requests undo while the other seated player's
\* request is on the list and the log is not empty, the last move is removed
\* from the log, undo_requests is cleared, and turn, castling flags and
\* en-passant target are those of a scan of the shortened log.
C11_BothUndoRemovesLastMove ==
    [][(/\ Called("undo")
        /\ TwoPlayers(room)
        /\ room.moves # <<>>
        /\ Seated(room, response'.by)
        /\ \E i \in 1..Len(room.undo_requests) :
              room.undo_requests[i] # response'.by /\ Seated(room, room.undo_requests[i]))
         => LET shorter == SubSeq(room.moves, 1, Len(room.moves) - 1)
            IN  /\ room'.moves = shorter
                /\ room'.undo_requests = <<>>
                /\ room'.current_turn = ScanTurn(shorter)
                /\ StoredFlags(room') = ScanFlags(shorter)
                /\ room'.en_passant_target = ScanEnPassant(shorter)]_vars

\* C12: a step that accepts a move appends one Move to the log, earlier
\* entries unchanged: a requested from/to pair the validator accepts on the
\* board before the step, the piece that board holds on the from-square, and
\* the sender as player.  It flips the turn and empties undo_requests; seats,
\* status, winner, resignation_by and rematch_requests stay as they were.
C12_AcceptedMoveEffect ==
    [][MoveAccepted =>
         LET m == LastMove(room')
             board == replay_board(room.moves)
         IN  /\ SubSeq(room'.moves, 1, Len(room.moves)) = room.moves
             /\ Called("move") /\ response'.result = "ok"
             /\ <<m.from_square, m.to_square>> \in MoveSquares
             /\ m.piece = board[m.from_square] /\ m.piece # NoPiece
             /\ is_valid_chess_move(board, m.from_square, m.to_square, m.piece,
                                    room.current_turn, room)[1]
             /\ m.player = response'.by
             /\ room'.current_turn = NextTurn(room.current_turn)
             /\ room'.undo_requests = <<>>
             /\ room'.player1_id = room.player1_id /\ room'.player2_id = room.player2_id
             /\ room'.game_status = room.game_status
             /\ room'.winner = room.winner
             /\ room'.resignation_by = room.resignation_by
             /\ room'.rematch_requests = room.rematch_requests]_vars

\* C12 witness: a move was accepted in a resigned game with a rematch request
\* pending, after an undo request had been on the list
C12_Witness ==
    /\ response.op = "move" /\ response.result = "ok" /\ response.by = "p2"
    /\ Len(room.moves) = 2
    /\ room.game_status = "resigned" /\ room.winner = "p2"
    /\ room.rematch_requests = <<"p1">>
    /\ room.undo_requests = <<>>

\* C13: in an active game with both seats taken, a move request that is not
\* accepted is answered with a rejection (never with silence) and changes no
\* field of the room.
C13_RejectionIsSent ==
    [][(/\ Called("move") /\ ~MoveAccepted
        /\ TwoPlayers(room) /\ room.game_status = "active")
         => response'.result = "rejected" /\ room' = room]_vars

\* C14: game_status changes only waiting -> active by the join that fills
\* the second seat, active -> finished, active -> resigned by a resign, and
\* finished or resigned -> active by the reset of an agreed rematch; and no
\* rematch resets a game that is active.
C14_StatusTransitions ==
    [][/\ room'.game_status # room.game_status =>
            \/ /\ room.game_status = "waiting" /\ room'.game_status = "active"
               /\ Called("join") /\ room.player1_id # None /\ room.player2_id = None
            \/ room.game_status = "active" /\ room'.game_status = "finished"
            \/ /\ room.game_status = "active" /\ room'.game_status = "resigned"
               /\ Called("resign")
            \/ /\ room.game_status \in {"finished", "resigned"}
               /\ room'.game_status = "active"
               /\ AgreedRematch
       /\ (room.game_status = "active" /\ Called("rematch"))
            => response'.detail # "rematch_started"]_vars

\* C15: the six stored castling flags are those of a scan of the current
\* log: a king flag iff the log holds a move of that king, a rook flag iff
\* it holds a move of a rook of that colour from that corner.
C15_FlagsMatchLog == StoredFlags(room) = ScanFlags(room.moves)

\* C15 witness: both a white rook from h1 and a black rook from a8 have moved
C15_Witness ==
    /\ room.white_rook_h1_moved /\ room.black_rook_a8_moved
    /\ ~room.white_rook_a1_moved /\ ~room.white_king_moved
    /\ Len(room.moves) = 4

\* C16: en_passant_target names the passed-over square when the last move
\* of the log is a pawn's two-square advance, and is null otherwise.
C16_EnPassantTargetFollowsLog ==
    SentBySeats(room) => room.en_passant_target = ScanEnPassant(room.moves)

\* the number of squares of the board holding the piece
Count(board, piece) == Cardinality({sq \in Squares : board[sq] = piece})

\* C17: the board replayed from the log holds exactly one white king and
\* exactly one black king.
C17_OneKingEach ==
    SentBySeats(room) =>
        /\ Count(replay_board(room.moves), "white_king") = 1
        /\ Count(replay_board(room.moves), "black_king") = 1

\* C18: a king's two-file move is accepted only if that king has not moved,
\* the rook of the chosen corner has not moved, the squares between king
\* and rook are empty, and the opponent attacks none of the king's square,
\* the square it passes and its destination.
C18_CastlingConditions ==
    [][(/\ MoveAccepted
        /\ SentBySeats(room')
        /\ piece_type(LastMove(room').piece) = "king"
        /\ Abs(square_to_coords(LastMove(room').from_square)[1]
                 - square_to_coords(LastMove(room').to_square)[1]) = 2)
         => LET m == LastMove(room')
                color == piece_color(m.piece)
                board == replay_board(room.moves)
                rank == square_to_coords(m.from_square)[2]
                king_file == square_to_coords(m.from_square)[1]
                to_file == square_to_coords(m.to_square)[1]
                rook_file == IF to_file > king_file THEN 7 ELSE 0
                rook_square == coords_to_square(rook_file, rank)
                lo(a, b) == IF a < b THEN a ELSE b
                hi(a, b) == IF a < b THEN b ELSE a
            IN  /\ \A i \in 1..Len(room.moves) : room.moves[i].piece # m.piece
                /\ \A i \in 1..Len(room.moves) :
                      ~(/\ room.moves[i].piece = PieceNames[color]["rook"]
                        /\ room.moves[i].from_square = rook_square)
                /\ \A f \in (lo(king_file, rook_file) + 1)..(hi(king_file, rook_file) - 1) :
                      ~InBoard(board, coords_to_square(f, rank))
                /\ \A f \in lo(king_file, to_file)..hi(king_file, to_file) :
                      ~is_attacked(board, coords_to_square(f, rank), NextTurn(color))]_vars

\* C19: is_in_check(board, color) is true exactly when a piece of the other
\* colour has a path-clear attack on color's king.
C19_IsInCheckDetectsAttack ==
    SentBySeats(room) =>
        \A color \in Colors :
            is_in_check(replay_board(room.moves), color)
                = in_check(replay_board(room.moves), color)

\* C20: for the side to move, a pawn's diagonal step forward onto an empty
\* square is accepted exactly when the last move of the log is an opposing
\* two-square advance that passed over that square.
C20_EnPassantWindow ==
    SentBySeats(room) =>
        LET board == replay_board(room.moves)
            color == room.current_turn
            forward == IF color = "white" THEN 1 ELSE -1
        IN  \A from \in Squares, side \in {-1, 1} :
                LET to_file == square_to_coords(from)[1] + side
                    to_rank == square_to_coords(from)[2] + forward
                IN  (/\ board[from] = PieceNames[color]["pawn"]
                     /\ <<to_file, to_rank>> \in Coords
                     /\ ~InBoard(board, coords_to_square(to_file, to_rank)))
                    => (MoveDecision(room, color, from,
                                     coords_to_square(to_file, to_rank)).accept
                          <=> ScanEnPassant(room.moves) = coords_to_square(to_file, to_rank))

\* this step accepted a move of a king over two files of its rank
CastlingAccepted ==
    /\ MoveAccepted
    /\ piece_type(LastMove(room').piece) = "king"
    /\ Abs(square_to_coords(LastMove(room').from_square)[1]
             - square_to_coords(LastMove(room').to_square)[1]) = 2

\* the corner square on the side a king's two-file move goes to
CornerOf(move) ==
    coords_to_square(IF square_to_coords(move.to_square)[1]
                          > square_to_coords(move.from_square)[1] THEN 7 ELSE 0,
                     square_to_coords(move.from_square)[2])

\* the square a king's two-file move passes over
KingPassed(move) ==
    coords_to_square((square_to_coords(move.from_square)[1]
                        + square_to_coords(move.to_square)[1]) \div 2,
                     square_to_coords(move.from_square)[2])

\* the rank a pawn of the colour promotes on, and the rank it starts on
FarRank(color) == IF color = "white" THEN 7 ELSE 0

StartRank(color) == IF color = "white" THEN 1 ELSE 6

\* ranks advanced by the move, counted in the mover's forward direction
Advance(move) ==
    (square_to_coords(move.to_square)[2] - square_to_coords(move.from_square)[2])
        * (IF piece_color(move.piece) = "white" THEN 1 ELSE -1)

\* C21: an accepted pawn move onto the farthest rank carries a promotion
\* kind in {knight, bishop, rook, queen}, and the board replayed afterwards
\* holds that piece of the mover's colour on the destination square.
C21_PromotionRequired ==
    [][(/\ MoveAccepted
        /\ SentBySeats(room')
        /\ piece_type(LastMove(room').piece) = "pawn"
        /\ square_to_coords(LastMove(room').to_square)[2]
             = FarRank(piece_color(LastMove(room').piece)))
         => /\ LastMove(room').promoted_to \in {"knight", "bishop", "rook", "queen"}
            /\ replay_board(room'.moves)[LastMove(room').to_square]
                 = PieceNames[piece_color(LastMove(room').piece)][LastMove(room').promoted_to]]_vars

\* C22: an accepted straight pawn move advances one square onto an empty
\* square, or two squares from the starting rank with the passed-over square
\* and the destination both empty; never more, never backward.
C22_PawnAdvance ==
    [][(/\ MoveAccepted
        /\ SentBySeats(room')
        /\ piece_type(LastMove(room').piece) = "pawn"
        /\ square_to_coords(LastMove(room').from_square)[1]
             = square_to_coords(LastMove(room').to_square)[1])
         => LET m == LastMove(room')
                board == replay_board(room.moves)
            IN  \/ Advance(m) = 1 /\ ~InBoard(board, m.to_square)
                \/ /\ Advance(m) = 2
                   /\ square_to_coords(m.from_square)[2] = StartRank(piece_color(m.piece))
                   /\ ~InBoard(board, PassedOver(m))
                   /\ ~InBoard(board, m.to_square)]_vars

\* C23: when the last move of the log is a castling move, the replayed
\* board has that side's rook on the square the king passed over and the
\* corner square empty; when it is an en-passant capture, the square one
\* rank behind the target holds no pawn.
C23_ReplayCompoundMoves ==
    (SentBySeats(room) /\ room.moves # <<>>) =>
        LET m == LastMove(room)
            board == replay_board(room.moves)
        IN  /\ m.is_castling =>
                 /\ board[KingPassed(m)] = PieceNames[piece_color(m.piece)]["rook"]
                 /\ ~InBoard(board, CornerOf(m))
            /\ m.is_en_passant =>
                 ~InBoard(board, coords_to_square(square_to_coords(m.to_square)[1],
                                                  square_to_coords(m.from_square)[2]))

\* C26: a king's two-file move is accepted only if a rook of the mover's
\* colour stands on the corner square of that side on the board before it.
C26_CastlingNeedsRook ==
    [][(CastlingAccepted /\ SentBySeats(room'))
         => replay_board(room.moves)[CornerOf(LastMove(room'))]
              = PieceNames[piece_color(LastMove(room').piece)]["rook"]]_vars

\* the squares strictly between two squares of one file, rank or diagonal
Between(from, to) ==
    LET ff == square_to_coords(from)[1]
        fr == square_to_coords(from)[2]
        tf == square_to_coords(to)[1]
        tr == square_to_coords(to)[2]
        n == IF Abs(tf - ff) > Abs(tr - fr) THEN Abs(tf - ff) ELSE Abs(tr - fr)
    IN  { coords_to_square(ff + k * ((tf - ff) \div n), fr + k * ((tr - fr) \div n)) :
              k \in 1..(n - 1) }

OnLine(from, to) ==
    \/ square_to_coords(from)[1] = square_to_coords(to)[1]
    \/ square_to_coords(from)[2] = square_to_coords(to)[2]

OnDiagonal(from, to) ==
    Abs(square_to_coords(from)[1] - square_to_coords(to)[1])
        = Abs(square_to_coords(from)[2] - square_to_coords(to)[2])

\* the three geometry checks applied to a pair of squares
RookCheck(board, from, to) ==
    validate_rook_move(board, square_to_coords(from)[1], square_to_coords(from)[2],
                       square_to_coords(to)[1], square_to_coords(to)[2])[1]

BishopCheck(board, from, to) ==
    validate_bishop_move(board, square_to_coords(from)[1], square_to_coords(from)[2],
                         square_to_coords(to)[1], square_to_coords(to)[2])[1]

QueenCheck(board, from, to) ==
    validate_queen_move(board, square_to_coords(from)[1], square_to_coords(from)[2],
                        square_to_coords(to)[1], square_to_coords(to)[2])[1]

\* C24: on the replayed board and for every two distinct squares, the rook
\* check accepts iff the squares share a file or rank and every square
\* strictly between is empty, the bishop check accepts iff they share a
\* diagonal and every square strictly between is empty, the queen check
\* accepts iff one of the two does; and none of the three answers changes
\* when the destination square is emptied or occupied.
C24_LineGeometry ==
    LET board == replay_board(room.moves)
    IN  \A from \in Squares, to \in Squares :
            from # to =>
                LET clear == \A sq \in Between(from, to) : ~InBoard(board, sq)
                    emptied == [board EXCEPT ![to] = NoPiece]
                    taken == [board EXCEPT ![to] = "black_pawn"]
                IN  /\ RookCheck(board, from, to) <=> (OnLine(from, to) /\ clear)
                    /\ BishopCheck(board, from, to) <=> (OnDiagonal(from, to) /\ clear)
                    /\ QueenCheck(board, from, to)
                         <=> (RookCheck(board, from, to) \/ BishopCheck(board, from, to))
                    /\ RookCheck(emptied, from, to) = RookCheck(taken, from, to)
                    /\ BishopCheck(emptied, from, to) = BishopCheck(taken, from, to)
                    /\ QueenCheck(emptied, from, to) = QueenCheck(taken, from, to)

\* C24 witness: the black queen went d8-h4 over the cleared squares e7, f6,
\* g5, while the bishop on c8 is shut in by the pawns on b7 and d7
C24_Witness ==
    /\ replay_board(room.moves)["h4"] = "black_queen"
    /\ QueenCheck(replay_board(room.moves), "h4", "e1")
    /\ ~BishopCheck(replay_board(room.moves), "c8", "a6")
    /\ ~RookCheck(replay_board(room.moves), "a1", "a3")

\* C25: the moves of the log are white's and black's in turn, white first,
\* and current_turn is white iff the log has an even number of moves.
C25_LogAlternates ==
    /\ \A k \in 1..Len(room.moves) :
          piece_color(room.moves[k].piece) = (IF k % 2 = 1 THEN "white" ELSE "black")
    /\ room.current_turn = ScanTurn(room.moves)

\* C25 witness: three moves are logged after a rematch was requested, and
\* it is black's turn
C25_Witness ==
    /\ Len(room.moves) = 3
    /\ room.current_turn = "black"
    /\ room.rematch_requests # <<>>
    /\ response.op = "move" /\ response.result = "ok"

\* C27: when both seats hold an id, the two ids differ.
C27_SeatsDiffer ==
    (room.player1_id # None /\ room.player2_id # None)
        => room.player1_id # room.player2_id

\* requests a and b of SpecHttp have returned from the operation and no
\* other request has started
BothReturned(a, b, op) ==
    /\ a # b
    /\ \A h \in {a, b} : hpc[h] = "returned" /\ hlocal[h].op = op
    /\ \A h \in Requests \ {a, b} : hpc[h] = "idle"

\* C28: when the join requests of two different players on the empty room
\* have both returned a colour, the colours differ, each caller's id is in
\* the seat of the colour it was told, and game_status is active.
C28_ConcurrentJoins ==
    \A a \in Requests, b \in Requests :
        (BothReturned(a, b, "join") /\ hlocal[a].result = "ok" /\ hlocal[b].result = "ok")
            => /\ hlocal[a].detail # hlocal[b].detail
               /\ \A h \in {a, b} : SeatOf(room, hlocal[h].detail) = RequestPlayer[h]
               /\ room.game_status = "active"

\* C29: when the rematch requests of the two seated players have both
\* returned, the rematch has started: the log is empty, game_status is
\* active and rematch_requests is empty.
C29_ConcurrentRematch ==
    \A a \in Requests, b \in Requests :
        (/\ BothReturned(a, b, "rematch")
         /\ TwoPlayers(room)
         /\ Seated(room, RequestPlayer[a]) /\ Seated(room, RequestPlayer[b]))
            => /\ room.moves = <<>>
               /\ room.game_status = "active"
               /\ room.rematch_requests = <<>>

\* the player id is a key of active_connections and is on the list of the room
Registered(player_id, room_id) ==
    /\ active_connections[player_id] # None
    /\ room_id \in DOMAIN room_connections
    /\ InList(player_id, room_connections[room_id])

\* C30: a player none of whose websockets is open any more (each has
\* stopped, by a disconnect or by an exception) is a key of
\* active_connections no longer and is on no room's list; a player with a
\* websocket still open is registered in that websocket's room; and no room
\* has an empty list.
C30_RegistryFollowsSockets ==
    /\ \A p \in PlayerIds :
          ((\E w \in Sockets : SocketPlayer[w] = p /\ hpc[w] \in {"closed", "failed"})
             /\ (\A w \in Sockets : SocketPlayer[w] = p => hpc[w] # "open"))
            => /\ active_connections[p] = None
               /\ \A r \in DOMAIN room_connections : ~InList(p, room_connections[r])
    /\ \A w \in Sockets :
          hpc[w] = "open" => Registered(SocketPlayer[w], SocketRoom[w])
    /\ \A r \in DOMAIN room_connections : room_connections[r] # <<>>

====
